---- MODULE Spec2Model ----
(***************************************************************************)
(* Model of wopr-plugin-voice-qwen3-tts (src/unnamed/part_002, the same    *)
(* program as src/index.ts with the later configuration keys).            *)
(*                                                                         *)
(*  - the WAV container reader: parseWavSampleRate and wavToPcm, pure      *)
(*    functions over byte buffers, applied to generated buffers (SpecWav); *)
(*  - the Qwen3Provider adapter: constructor, validateConfig, synthesize,  *)
(*    healthCheck against a nondeterministic server (Spec), the voice      *)
(*    catalogue under repeated fetchVoices (SpecVoices), and the requests  *)
(*    the three network operations issue (SpecRequests);                   *)
(*  - the plugin: init and shutdown over the module-level ctx, provider    *)
(*    and cleanups, their steps interleaved at every await (SpecPlugin).   *)
(*                                                                         *)
(* A Buffer is a sequence of bytes 0..255; source offsets are 0-based, the *)
(* byte at source offset k is buf[k + 1].  A JavaScript string read from a *)
(* Buffer is the sequence of its character codes.                          *)
(***************************************************************************)
EXTENDS Integers, Sequences, FiniteSets, TLC

VARIABLES
    wavInput,      \* how the buffer under test was generated (its parameters)
    wavBuffer,     \* the Buffer handed to the reader
    wavCall,       \* "none" before the call, else the function that was called
    wavResult,     \* what the call produced: a return value or a thrown error
    env,           \* process.env.QWEN3_TTS_URL when the module was loaded
    ctorConfig,    \* the Qwen3Config object passed to the constructor
    config,        \* Qwen3Provider.config
    voices,        \* Qwen3Provider.voices, the voice catalogue
    dynamicVoices, \* Qwen3Provider.dynamicVoices
    last,          \* the last provider call: its input, outcome and requests
    calls,         \* number of provider calls made so far
    ctx,           \* the module's ctx: "null" or "context"
    provider,      \* the module's provider: 0 (null) or an index in providers
    providers,     \* the Qwen3Provider objects plugin.init has constructed
    cleanups,      \* the module's cleanups array
    host,          \* the host's registry and log, reached through the context
    inits,         \* the calls of plugin.init and where each one stands
    shutdowns      \* the calls of plugin.shutdown and where each one stands

wavVars == <<wavInput, wavBuffer, wavCall, wavResult>>
providerVars == <<env, ctorConfig, config, voices, dynamicVoices, last, calls>>
pluginVars == <<ctx, provider, providers, cleanups, host, inits, shutdowns>>
vars == <<wavInput, wavBuffer, wavCall, wavResult,
          env, ctorConfig, config, voices, dynamicVoices, last, calls,
          ctx, provider, providers, cleanups, host, inits, shutdowns>>

Min(a, b) == IF a < b THEN a ELSE b
Max(a, b) == IF a > b THEN a ELSE b

(***************************************************************************)
(* Node's Buffer primitives used by the reader.                            *)
(***************************************************************************)

\* buffer.toString("ascii", start, end): the bytes of [start, end) clamped to
\* the buffer, each decoded with its highest bit unset (Node's "ascii").
AsciiSlice(buf, start, end) ==
    LET e == Min(end, Len(buf))
    IN  IF start >= e THEN <<>>
        ELSE [i \in 1..(e - start) |-> buf[start + i] % 128]

\* buffer.readUInt32LE(offset) throws ERR_OUT_OF_RANGE unless
\* 0 <= offset <= length - 4.
CanReadUInt32LE(buf, offset) == offset >= 0 /\ offset + 4 <= Len(buf)

\* buffer.readUInt32LE(offset) where it does not throw.
ReadUInt32LE(buf, offset) ==
    buf[offset + 1] + buf[offset + 2] * 256 + buf[offset + 3] * 65536
        + buf[offset + 4] * 16777216

\* buffer.subarray(start, end) for start, end >= 0: both clamped to the
\* length, empty when end <= start.
Subarray(buf, start, end) ==
    LET s == Min(start, Len(buf))
        e == Min(end, Len(buf))
    IN  IF e <= s THEN <<>> ELSE SubSeq(buf, s + 1, e)

\* The character codes of the string literals the reader compares with.
STR_RIFF == <<82, 73, 70, 70>>
STR_WAVE == <<87, 65, 86, 69>>
STR_fmt == <<102, 109, 116, 32>>
STR_data == <<100, 97, 116, 97>>

DEFAULT_SAMPLE_RATE == 24000
FALLBACK_OFFSET == 44

(***************************************************************************)
(* parseWavSampleRate and wavToPcm.                                        *)
(***************************************************************************)

ParseWavSampleRate(buffer) ==
    IF Len(buffer) < 28 THEN DEFAULT_SAMPLE_RATE
    ELSE IF AsciiSlice(buffer, 0, 4) # STR_RIFF THEN DEFAULT_SAMPLE_RATE
    ELSE ReadUInt32LE(buffer, 24)

\* A call's outcome.  via tells which return statement produced it ("data":
\* the return inside the loop, "fallback": the one after it) and at is the
\* value of offset when the call ended.
Returned(pcm, sampleRate, via, at) ==
    [status |-> "returned", pcm |-> pcm, sampleRate |-> sampleRate,
     via |-> via, at |-> at]

Threw(at) ==
    [status |-> "threw", pcm |-> <<>>, sampleRate |-> 0,
     via |-> "RangeError", at |-> at]

\* The loop condition of wavToPcm.
ScanContinues(wavBuffer_, offset) == offset < Len(wavBuffer_) - 8

\* Mutant of FmtSampleRateAt: offset 12 counted from the start of the chunk
\* data, which is 8 bytes after the start of the header.
FmtSampleRateAt_Payload12(offset) == (offset + 8) + 12

\* Where the sample rate of the fmt chunk whose header is at offset is read.
FmtSampleRateAt(offset) == offset + 12

\* Mutant of DataPayload: the slice starts at the chunk header.
DataPayload_FromHeader(wavBuffer_, offset, chunkSize) ==
    Subarray(wavBuffer_, offset, offset + 8 + chunkSize)

\* The pcm of a data chunk whose header is at offset.
DataPayload(wavBuffer_, offset, chunkSize) ==
    Subarray(wavBuffer_, offset + 8, offset + 8 + chunkSize)

\* The while loop of wavToPcm from the given loop state, and the fallback
\* return after it.
RECURSIVE WavScan(_, _, _)
WavScan(wavBuffer_, offset, sampleRate) ==
    IF ScanContinues(wavBuffer_, offset)
    THEN LET chunkId == AsciiSlice(wavBuffer_, offset, offset + 4)
             chunkSize == ReadUInt32LE(wavBuffer_, offset + 4)
         IN  IF chunkId = STR_fmt
             THEN IF CanReadUInt32LE(wavBuffer_, FmtSampleRateAt(offset))
                  THEN WavScan(wavBuffer_, offset + 8 + chunkSize,
                               ReadUInt32LE(wavBuffer_,
                                            FmtSampleRateAt(offset)))
                  ELSE Threw(offset)
             ELSE IF chunkId = STR_data
             THEN Returned(DataPayload(wavBuffer_, offset, chunkSize),
                           sampleRate, "data", offset)
             ELSE WavScan(wavBuffer_, offset + 8 + chunkSize, sampleRate)
    ELSE Returned(Subarray(wavBuffer_, FALLBACK_OFFSET, Len(wavBuffer_)),
                  ParseWavSampleRate(wavBuffer_), "fallback", offset)

WavToPcm(wavBuffer_) == WavScan(wavBuffer_, 12, DEFAULT_SAMPLE_RATE)

(***************************************************************************)
(* The buffers the reader is applied to.                                   *)
(*                                                                         *)
(* "container": the buffer the repository's test builds (RIFF header, a    *)
(* fmt chunk, a data chunk), for every fmt chunk-size, sample rate and     *)
(* payload within the bounds, cut to each of its prefixes (cut = its full  *)
(* length: the whole container).                                           *)
(* "filled": Buffer.alloc(len) with a 4-byte magic written at 0, a 32-bit  *)
(* value at 24 and one 8-byte chunk header planted at a chunk boundary.    *)
(*                                                                         *)
(* Every 32-bit field the generators write is below 2^31, the range of     *)
(* TLC's integers.                                                         *)
(***************************************************************************)

MaxFmtSize == 18
MaxPayloadLen == 8
MaxFilledLen == 50
MaxPlantedSlot == 4

SampleRates == {24000, 44100}

\* buffer.writeUInt32LE(n): the four bytes of n, least significant first.
LE32(n) ==
    <<n % 256, (n \div 256) % 256, (n \div 65536) % 256,
      (n \div 16777216) % 256>>

\* The 16-byte PCM format body the test writes: format 1, mono, sample rate,
\* byte rate, block align 2, 16 bits per sample.
FmtBody16(rate) ==
    <<1, 0, 1, 0>> \o LE32(rate) \o LE32(2 * rate) \o <<2, 0, 16, 0>>

\* A fmt chunk-body of the given size: the standard body, cut or zero-padded.
FmtBody(size, rate) ==
    [i \in 1..size |-> IF i <= 16 THEN FmtBody16(rate)[i] ELSE 0]

Payload(n) == [i \in 1..n |-> i]

Container(fmtSize, rate, payloadLen) ==
    STR_RIFF \o LE32(4 + (8 + fmtSize) + 8 + payloadLen) \o STR_WAVE
        \o STR_fmt \o LE32(fmtSize) \o FmtBody(fmtSize, rate)
        \o STR_data \o LE32(payloadLen) \o Payload(payloadLen)

ContainerLen(fmtSize, payloadLen) == 12 + 8 + fmtSize + 8 + payloadLen

\* buf.write / buf.writeUInt32LE of bytes at a 0-based offset where they fit.
Overlay(buf, offset, bytes) ==
    [i \in 1..Len(buf) |->
        IF i > offset /\ i <= offset + Len(bytes) THEN bytes[i - offset]
        ELSE buf[i]]

\* The 4-byte magics and chunk identifiers the filled buffers carry.  "RIFF^"
\* and "data^" are RIFF and data with the highest bit of the first byte set.
Magic(name) ==
    CASE name = "RIFF" -> STR_RIFF
      [] name = "RIFF^" -> <<210, 73, 70, 70>>
      [] name = "NOPE" -> <<78, 79, 80, 69>>
      [] name = "fmt " -> STR_fmt
      [] name = "data" -> STR_data
      [] name = "data^" -> <<228, 97, 116, 97>>
      [] name = "LIST" -> <<76, 73, 83, 84>>
      [] OTHER -> <<0, 0, 0, 0>>

BigChunkSize == 1000000000

Filled(len, magic, rate, plantId, plantAt, plantSize) ==
    LET zero == [i \in 1..len |-> 0]
        m == IF len >= 4 THEN Overlay(zero, 0, Magic(magic)) ELSE zero
        r == IF len >= 28 /\ rate # 0 THEN Overlay(m, 24, LE32(rate)) ELSE m
    IN  IF plantId # "none" /\ plantAt + 8 <= len
        THEN Overlay(r, plantAt, Magic(plantId) \o LE32(plantSize))
        ELSE r

NoPlant == [plantId |-> "none", plantAt |-> 0, plantSize |-> 0]

ContainerInputs ==
    { [kind |-> "container", fmtSize |-> s, rate |-> r, payloadLen |-> p,
       cut |-> c, magic |-> "RIFF", plantId |-> "none", plantAt |-> 0,
       plantSize |-> 0] :
        s \in 0..MaxFmtSize, r \in SampleRates, p \in 0..MaxPayloadLen,
        c \in 0..(12 + 8 + MaxFmtSize + 8 + MaxPayloadLen) }

FilledInputs ==
    { [kind |-> "filled", fmtSize |-> 0, rate |-> r, payloadLen |-> 0,
       cut |-> n, magic |-> m, plantId |-> pl.plantId,
       plantAt |-> pl.plantAt, plantSize |-> pl.plantSize] :
        n \in 0..MaxFilledLen, m \in {"RIFF", "RIFF^", "NOPE"},
        r \in {0, 44100},
        pl \in {NoPlant} \cup
               [plantId : {"fmt ", "data", "data^", "LIST"},
                plantAt : {12 + 8 * j : j \in 0..MaxPlantedSlot},
                plantSize : {0, 4, BigChunkSize}] }

WavInputs ==
    { i \in ContainerInputs : i.cut <= ContainerLen(i.fmtSize, i.payloadLen) }
        \cup { i \in FilledInputs : i.plantId = "none" \/ i.plantAt + 8 <= i.cut }

BuildWav(i) ==
    IF i.kind = "container"
    THEN SubSeq(Container(i.fmtSize, i.rate, i.payloadLen), 1, i.cut)
    ELSE Filled(i.cut, i.magic, i.rate, i.plantId, i.plantAt, i.plantSize)

NoWavResult ==
    [status |-> "none", pcm |-> <<>>, sampleRate |-> 0, via |-> "none", at |-> 0]

\* The buffer of the repository's own wavToPcm extraction test.
TestContainerInput ==
    [kind |-> "container", fmtSize |-> 16, rate |-> 24000, payloadLen |-> 8,
     cut |-> 52, magic |-> "RIFF", plantId |-> "none", plantAt |-> 0,
     plantSize |-> 0]

(***************************************************************************)
(* JavaScript values of the adapter: strings, numbers, undefined, null and *)
(* the plain objects of the voice list.                                    *)
(***************************************************************************)

JsStr(text) == [t |-> "string", s |-> text]
JsNum(text) == [t |-> "number", s |-> text]
Undefined == [t |-> "undefined", s |-> ""]
Null == [t |-> "null", s |-> ""]

\* ToBoolean on these values.
Truthy(v) ==
    \/ v.t = "string" /\ v.s # ""
    \/ v.t = "number" /\ v.s \notin {"0", "NaN"}
    \/ v.t = "object"

\* a || b
JsOr(a, b) == IF Truthy(a) THEN a ELSE b

\* a ?? b
JsNullish(a, b) == IF a.t \in {"undefined", "null"} THEN b ELSE a

\* String(v) and `${v}`.
StringOf(v) ==
    CASE v.t = "string" -> v.s
      [] v.t = "number" -> v.s
      [] v.t = "undefined" -> "undefined"
      [] v.t = "null" -> "null"
      [] OTHER -> "[object Object]"

\* A key an object does not have.
Absent == [t |-> "absent", s |-> ""]

ConfigKeys == {"serverUrl", "voice", "speed", "language", "responseFormat"}

\* A Qwen3Config object: every key of the interface, Absent where the object
\* has no such own key.
Qwen3Config(serverUrl, voice) ==
    [serverUrl |-> serverUrl, voice |-> voice, speed |-> Absent,
     language |-> Absent, responseFormat |-> Absent]

\* obj.key
Get(obj, key) == IF obj[key] = Absent THEN Undefined ELSE obj[key]

\* { ...a, ...b }: b's own keys win, an own key holding undefined included.
Spread(a, b) == [k \in ConfigKeys |-> IF b[k] # Absent THEN b[k] ELSE a[k]]

\* s contains sub (String.prototype.includes).
Contains(s, sub) ==
    \E i \in 0..(Len(s) - Len(sub)) : SubSeq(s, i + 1, i + Len(sub)) = sub

(***************************************************************************)
(* Configuration.                                                          *)
(***************************************************************************)

DEFAULT_CONFIG(env_) ==
    [serverUrl |-> JsOr(env_.QWEN3_TTS_URL, JsStr("http://qwen3-tts:8880")),
     voice |-> JsOr(env_.QWEN3_TTS_VOICE, JsStr("Vivian")),
     speed |-> JsNum("1"),
     language |-> JsStr("en"),
     responseFormat |-> JsStr("wav")]

\* Mutant of Constructor: the defaults are not spread under the given object.
Constructor_NoDefaults(env_, ctorConfig_) ==
    [k \in ConfigKeys |-> Get(ctorConfig_, k)]

\* constructor(config = {})
Constructor(env_, ctorConfig_) == Spread(DEFAULT_CONFIG(env_), ctorConfig_)

\* The environments the module is loaded in and the objects the constructor
\* is given: no serverUrl key, the key holding undefined, null, the empty
\* string and a URL.
Environments ==
    [QWEN3_TTS_URL : {Undefined, JsStr(""), JsStr("http://env-host:8880")},
     QWEN3_TTS_VOICE : {Undefined}]

CtorConfigs ==
    {Qwen3Config(Absent, Absent),
     Qwen3Config(Absent, JsStr("Ryan")),
     Qwen3Config(Undefined, Absent),
     Qwen3Config(Null, Absent),
     Qwen3Config(JsStr(""), Absent),
     Qwen3Config(JsStr("http://localhost:8880"), Absent)}

(***************************************************************************)
(* The voice catalogue.                                                    *)
(***************************************************************************)

Voice(id, name, language, gender, description) ==
    [id |-> id, name |-> name, language |-> language, gender |-> gender,
     description |-> description]

StaticVoice(id, name, language, gender, description) ==
    Voice(JsStr(id), JsStr(name), JsStr(language), JsStr(gender),
          JsStr(description))

\* readonly voices: Voice[] = [...]
StaticVoices ==
    <<StaticVoice("Vivian", "Vivian", "zh", "female",
                  "Bright, slightly edgy young female"),
      StaticVoice("Serena", "Serena", "zh", "female",
                  "Warm, gentle young female"),
      StaticVoice("Ryan", "Ryan", "en", "male",
                  "Dynamic male with strong rhythmic drive"),
      StaticVoice("Aiden", "Aiden", "en", "male",
                  "Sunny American male with clear midrange"),
      StaticVoice("Dylan", "Dylan", "zh", "male",
                  "Youthful Beijing male, clear natural timbre"),
      StaticVoice("Eric", "Eric", "zh", "male",
                  "Lively Chengdu male, slightly husky"),
      StaticVoice("Uncle_Fu", "Uncle Fu", "zh", "male",
                  "Seasoned male, low mellow timbre"),
      StaticVoice("Ono_Anna", "Ono Anna", "ja", "female",
                  "Playful Japanese female, light nimble timbre"),
      StaticVoice("Sohee", "Sohee", "ko", "female",
                  "Warm Korean female with rich emotion")>>

\* An element of the fetched JSON array: an object with some of the keys the
\* adapter looks at, a string, or null.
JsonObject(voice_id, id, name, language, gender, description) ==
    [t |-> "object", s |-> "", voice_id |-> voice_id, id |-> id,
     name |-> name, language |-> language, gender |-> gender,
     description |-> description]

JsonString(text) ==
    [t |-> "string", s |-> text, voice_id |-> Undefined, id |-> Undefined,
     name |-> Undefined, language |-> Undefined, gender |-> Undefined,
     description |-> Undefined]

JsonNull ==
    [t |-> "null", s |-> "", voice_id |-> Undefined, id |-> Undefined,
     name |-> Undefined, language |-> Undefined, gender |-> Undefined,
     description |-> Undefined]

\* voice.key where voice is the element cast to a record of strings: a
\* property the element does not have reads as undefined.
Prop(v, key) == IF v.t = "object" THEN v[key] ELSE Undefined

\* Reading a property of null (or undefined) throws a TypeError.
CanReadProps(v) == v.t \notin {"null", "undefined"}

\* String(v) for an element of the array.
ElementString(v) == JsStr(StringOf([t |-> v.t, s |-> v.s]))

\* The callback of data.map in fetchVoices.
NormalizeVoice(v) ==
    Voice(JsOr(JsOr(JsOr(Prop(v, "voice_id"), Prop(v, "id")),
                    Prop(v, "name")), ElementString(v)),
          JsOr(JsOr(JsOr(Prop(v, "name"), Prop(v, "voice_id")),
                    Prop(v, "id")), ElementString(v)),
          JsOr(Prop(v, "language"), JsStr("en")),
          JsOr(Prop(v, "gender"), JsStr("neutral")),
          Prop(v, "description"))

\* Mutant of MergeVoices: the held entries are not filtered by id.
MergeVoices_NoFilter(voices_, dynamicVoices_) == voices_ \o dynamicVoices_

\* The merge of fetchVoices: the held entries whose id no dynamic entry has,
\* then the dynamic entries.
MergeVoices(voices_, dynamicVoices_) ==
    LET dynamicIds == {dynamicVoices_[i].id : i \in DOMAIN dynamicVoices_}
    IN  SelectSeq(voices_, LAMBDA v : v.id \notin dynamicIds)
            \o dynamicVoices_

(***************************************************************************)
(* The server, as fetch shows it to the adapter.                           *)
(***************************************************************************)

MaxFetched == 2
MaxCalls == 2
MaxElapsedMs == 1

\* fetch rejects without sending anything when the URL does not parse; the
\* URLs the adapter builds parse exactly when serverUrl carries a scheme.
StartsWith(s, prefix) ==
    Len(s) >= Len(prefix) /\ SubSeq(s, 1, Len(prefix)) = prefix

ValidUrl(url) == StartsWith(url, "http://") \/ StartsWith(url, "https://")

\* response.ok
ResponseOk(status) == status >= 200 /\ status <= 299

Statuses == {200, 299, 304, 404, 500}

NoJson == [valid |-> FALSE, isArray |-> FALSE, items |-> <<>>]

\* What one fetch and the reading of its body come to.  kind: the promise of
\* fetch rejected ("invalid_url", "network_error", "timeout": the abort
\* signal fired) or resolved with a response; bodyOk: the body was delivered
\* whole to response.json() / text() / arrayBuffer().
Reply(kind, status, bodyOk, json, text, bytes) ==
    [kind |-> kind, status |-> status, bodyOk |-> bodyOk, json |-> json,
     text |-> text, bytes |-> bytes]

Rejection(kind) == Reply(kind, 0, FALSE, NoJson, "", <<>>)

Rejections == {Rejection("network_error"), Rejection("timeout")}

\* The elements a voice list is made of.
VoiceElements ==
    {JsonObject(JsStr("Vivian"), Undefined, JsStr("Vivian v2"), JsStr("zh"),
                Undefined, Undefined),
     JsonObject(Undefined, JsStr("Nova"), Undefined, Undefined,
                JsStr("female"), JsStr("Served by the remote")),
     JsonString("Nova"),
     JsonNull}

RECURSIVE SeqsUpTo(_, _)
SeqsUpTo(S, n) ==
    IF n = 0 THEN {<<>>}
    ELSE LET shorter == SeqsUpTo(S, n - 1)
         IN  shorter \cup {Append(q, x) : q \in shorter, x \in S}

VoicesBodies ==
    {[valid |-> TRUE, isArray |-> TRUE, items |-> a] :
        a \in SeqsUpTo(VoiceElements, MaxFetched)}
        \cup {[valid |-> TRUE, isArray |-> FALSE, items |-> <<>>], NoJson}

VoicesReplies ==
    Rejections
        \cup {Reply("response", st, FALSE, NoJson, "", <<>>) : st \in Statuses}
        \cup {Reply("response", 200, TRUE, j, "", <<>>) : j \in VoicesBodies}

ProbeReplies ==
    Rejections
        \cup {Reply("response", st, TRUE, NoJson, "", <<>>) : st \in Statuses}

\* Bodies of the synthesis endpoint: the test's container, a container cut
\* inside its fmt chunk, and an empty body.
SpeechBodies ==
    {BuildWav(TestContainerInput),
     BuildWav([TestContainerInput EXCEPT !.cut = 24]),
     <<>>}

ErrorTexts == {"", "voice not found"}

SpeechReplies ==
    Rejections
        \cup {Reply("response", st, FALSE, NoJson, "", <<>>) : st \in Statuses}
        \cup {Reply("response", st, TRUE, NoJson, e, <<>>) :
                st \in {x \in Statuses : ~ResponseOk(x)}, e \in ErrorTexts}
        \cup {Reply("response", st, TRUE, NoJson, "", b) :
                st \in {x \in Statuses : ResponseOk(x)}, b \in SpeechBodies}

\* The replies a fetch of url can come to.
RepliesTo(url, replies) ==
    IF ValidUrl(url) THEN replies ELSE {Rejection("invalid_url")}

Request(method, url) == [method |-> method, url |-> url]

\* `${this.config.serverUrl}<path>`
Endpoint(config_, path) == StringOf(config_.serverUrl) \o path

(***************************************************************************)
(* The operations of Qwen3Provider, each as the outcome of one call.       *)
(***************************************************************************)

\* validateConfig(): whether it throws Error("serverUrl is required").
ValidateConfigThrows(config_) == ~Truthy(config_.serverUrl)

\* Mutant of FetchVoicesOutcome: the catch block empties the catalogue.
FetchVoicesOutcome_CatchClears(voices_, dynamicVoices_, reply) ==
    LET items == reply.json.items
        mapped == [i \in DOMAIN items |-> NormalizeVoice(items[i])]
        badElement == \E i \in DOMAIN items : ~CanReadProps(items[i])
        badBody == ~reply.bodyOk \/ ~reply.json.valid
        caught ==
            \/ reply.kind # "response"
            \/ (ResponseOk(reply.status) /\ badBody)
            \/ (ResponseOk(reply.status) /\ reply.json.isArray /\ badElement)
        merged ==
            /\ ~caught
            /\ ResponseOk(reply.status)
            /\ reply.json.isArray
    IN  [voices |-> IF caught THEN <<>>
                    ELSE IF merged THEN MergeVoices(voices_, mapped)
                    ELSE voices_,
         dynamicVoices |-> IF merged THEN mapped ELSE dynamicVoices_,
         threw |-> FALSE, caught |-> caught, merged |-> merged]

\* fetchVoices(): the catalogue and the dynamic list after the call.  caught
\* tells that the catch block ran, merged that the assignment of the merged
\* list was reached; threw is what the caller sees.
FetchVoicesOutcome(voices_, dynamicVoices_, reply) ==
    LET same(caught) ==
            [voices |-> voices_, dynamicVoices |-> dynamicVoices_,
             threw |-> FALSE, caught |-> caught, merged |-> FALSE]
        items == reply.json.items
        mapped == [i \in DOMAIN items |-> NormalizeVoice(items[i])]
    IN  IF reply.kind # "response" THEN same(TRUE)
        ELSE IF ~ResponseOk(reply.status) THEN same(FALSE)
        ELSE IF ~reply.bodyOk \/ ~reply.json.valid THEN same(TRUE)
        ELSE IF ~reply.json.isArray THEN same(FALSE)
        ELSE IF \E i \in DOMAIN items : ~CanReadProps(items[i])
        THEN same(TRUE)
        ELSE [voices |-> MergeVoices(voices_, mapped),
              dynamicVoices |-> mapped,
              threw |-> FALSE, caught |-> FALSE, merged |-> TRUE]

\* Mutant of HealthCheckOutcome: any response counts as healthy.
HealthCheckOutcome_AnyResponse(reply) ==
    [threw |-> FALSE, healthy |-> reply.kind = "response"]

\* healthCheck(): the boolean it resolves with; the catch block turns every
\* rejection of fetch, the abort after 1000 ms included, into false.
HealthCheckOutcome(reply) ==
    [threw |-> FALSE,
     healthy |-> IF reply.kind = "response" THEN ResponseOk(reply.status)
                 ELSE FALSE]

\* The JSON body synthesize posts.
RequestBody(config_, text, options) ==
    LET voice == JsOr(Get(options, "voice"), config_.voice)
        speed == JsNullish(Get(options, "speed"), config_.speed)
        lang == config_.language
        model == IF Truthy(lang) /\ lang # JsStr("en")
                 THEN JsStr("tts-1-hd-" \o StringOf(lang))
                 ELSE JsStr("tts-1-hd")
    IN  [input |-> JsStr(text), voice |-> voice, model |-> model,
         response_format |-> config_.responseFormat, speed |-> speed]

\* Mutant of SynthesisErrorMessage: the status code is left out.
SynthesisErrorMessage_NoStatus(status, error) ==
    "Qwen3 TTS error: " \o error

\* new Error(`Qwen3 TTS error: ${response.status} - ${error}`)
SynthesisErrorMessage(status, error) ==
    "Qwen3 TTS error: " \o ToString(status) \o " - " \o error

NoAudio ==
    [audio |-> <<>>, format |-> "none", sampleRate |-> 0, durationMs |-> 0]

\* synthesize(): rejects with an error (threw, message) or resolves with a
\* TTSSynthesisResult (value).
SynthesizeOutcome(reply, elapsed) ==
    LET rejects(message) ==
            [threw |-> TRUE, message |-> message, value |-> NoAudio]
        parsed == WavToPcm(reply.bytes)
    IN  IF reply.kind = "timeout"
        THEN rejects("The operation was aborted due to timeout")
        ELSE IF reply.kind # "response" THEN rejects("fetch failed")
        ELSE IF ~reply.bodyOk THEN rejects("terminated")
        ELSE IF ~ResponseOk(reply.status)
        THEN rejects(SynthesisErrorMessage(reply.status, reply.text))
        ELSE IF parsed.status = "threw"
        THEN rejects("The value of \"offset\" is out of range.")
        ELSE [threw |-> FALSE, message |-> "",
              value |-> [audio |-> parsed.pcm, format |-> "pcm_s16le",
                         sampleRate |-> parsed.sampleRate,
                         durationMs |-> elapsed]]

\* Date.now() - startTime, read only when the call resolves.
ElapsedTimes(reply) ==
    IF SynthesizeOutcome(reply, 0).threw THEN {0} ELSE 0..MaxElapsedMs

\* TTSOptions: voice and speed, Absent where not given.
Options(voice) ==
    [voice |-> voice, speed |-> Absent, sampleRate |-> Absent]

OptionSets == {Options(Absent), Options(JsStr("am_michael"))}

Texts == {"Hello world", ""}

\* Mutant of IssuedRequests: a fetch that rejected is sent a second time.
IssuedRequests_RetryOnFailure(method, url, reply) ==
    IF reply.kind = "response" THEN <<Request(method, url)>>
    ELSE <<Request(method, url), Request(method, url)>>

\* The requests one call of healthCheck, fetchVoices or synthesize issues: its
\* single fetch, whatever that fetch comes to (no loop, and the catch blocks
\* fetch nothing).
IssuedRequests(method, url, reply) == <<Request(method, url)>>

(***************************************************************************)
(* The record of the last call.                                            *)
(***************************************************************************)

NoBody ==
    [input |-> Undefined, voice |-> Undefined, model |-> Undefined,
     response_format |-> Undefined, speed |-> Undefined]

Call(op, reply, before, threw, message, merged, healthy, value, reqs, body) ==
    [op |-> op, reply |-> reply, before |-> before, threw |-> threw,
     message |-> message, merged |-> merged, healthy |-> healthy,
     value |-> value, requests |-> reqs, body |-> body]

NoCall ==
    Call("none", Rejection("none"), <<>>, FALSE, "", FALSE, FALSE, NoAudio,
         <<>>, NoBody)

(***************************************************************************)
(* Actions.                                                                *)
(***************************************************************************)

\* wavToPcm(wavBuffer)
CallWavToPcm ==
    /\ wavCall = "none"
    /\ wavCall' = "wavToPcm"
    /\ wavResult' = WavToPcm(wavBuffer)
    /\ UNCHANGED <<wavInput, wavBuffer>>
    /\ UNCHANGED providerVars
    /\ UNCHANGED pluginVars

\* parseWavSampleRate(wavBuffer)
CallParseWavSampleRate ==
    /\ wavCall = "none"
    /\ wavCall' = "parseWavSampleRate"
    /\ wavResult' = Returned(<<>>, ParseWavSampleRate(wavBuffer),
                             "parseWavSampleRate", 0)
    /\ UNCHANGED <<wavInput, wavBuffer>>
    /\ UNCHANGED providerVars
    /\ UNCHANGED pluginVars

\* provider.validateConfig()
ValidateConfig ==
    /\ calls < MaxCalls
    /\ calls' = calls + 1
    /\ last' = Call("validateConfig", Rejection("none"), voices,
                    ValidateConfigThrows(config),
                    IF ValidateConfigThrows(config)
                    THEN "serverUrl is required" ELSE "",
                    FALSE, FALSE, NoAudio, <<>>, NoBody)
    /\ UNCHANGED <<env, ctorConfig, config, voices, dynamicVoices>>
    /\ UNCHANGED wavVars
    /\ UNCHANGED pluginVars

\* await provider.fetchVoices()
FetchVoices ==
    /\ calls < MaxCalls
    /\ calls' = calls + 1
    /\ LET url == Endpoint(config, "/v1/voices")
       IN  \E reply \in RepliesTo(url, VoicesReplies) :
               LET out == FetchVoicesOutcome(voices, dynamicVoices, reply)
               IN  /\ voices' = out.voices
                   /\ dynamicVoices' = out.dynamicVoices
                   /\ last' = Call("fetchVoices", reply, voices, out.threw,
                                   "", out.merged, FALSE, NoAudio,
                                   IssuedRequests("GET", url, reply), NoBody)
    /\ UNCHANGED <<env, ctorConfig, config>>
    /\ UNCHANGED wavVars
    /\ UNCHANGED pluginVars

\* await provider.healthCheck()
HealthCheck ==
    /\ calls < MaxCalls
    /\ calls' = calls + 1
    /\ LET url == Endpoint(config, "/v1/models")
       IN  \E reply \in RepliesTo(url, ProbeReplies) :
               LET out == HealthCheckOutcome(reply)
               IN  last' = Call("healthCheck", reply, voices, out.threw, "",
                                FALSE, out.healthy, NoAudio,
                                IssuedRequests("GET", url, reply), NoBody)
    /\ UNCHANGED <<env, ctorConfig, config, voices, dynamicVoices>>
    /\ UNCHANGED wavVars
    /\ UNCHANGED pluginVars

\* await provider.synthesize(text, options)
Synthesize ==
    /\ calls < MaxCalls
    /\ calls' = calls + 1
    /\ LET url == Endpoint(config, "/v1/audio/speech")
       IN  \E text \in Texts, options \in OptionSets,
              reply \in RepliesTo(url, SpeechReplies) :
             \E elapsed \in ElapsedTimes(reply) :
               LET out == SynthesizeOutcome(reply, elapsed)
               IN  last' = Call("synthesize", reply, voices, out.threw,
                                out.message, FALSE, FALSE, out.value,
                                IssuedRequests("POST", url, reply),
                                RequestBody(config, text, options))
    /\ UNCHANGED <<env, ctorConfig, config, voices, dynamicVoices>>
    /\ UNCHANGED wavVars
    /\ UNCHANGED pluginVars

(***************************************************************************)
(* The plugin: init and shutdown over the module's ctx, provider and       *)
(* cleanups.  An async function runs without interruption up to its next   *)
(* await; what follows the await is a step of its own, taken at any later  *)
(* time, so the steps of different calls interleave.                       *)
(***************************************************************************)

MaxInits == 2
MaxShutdowns == 1

\* The host behind the context: the config schema registered under
\* "voice-qwen3-tts", the extension registered under "tts" (the provider
\* handed over, 0 for null) and the levels of the lines logged.
HostEmpty ==
    [configSchema |-> FALSE,
     extension |-> [registered |-> FALSE, provider |-> 0],
     log |-> <<>>]

\* ctx.log.info / warn / error
Log(host_, level) == [host_ EXCEPT !.log = Append(@, level)]

\* new Qwen3Provider(config)
NewProvider(env_, ctorConfig_) ==
    [config |-> Constructor(env_, ctorConfig_), voices |-> StaticVoices,
     dynamicVoices |-> <<>>]

\* What ctx.getConfig() hands to init: an object without a serverUrl key, or
\* one whose serverUrl is empty.
PluginConfigs == {Qwen3Config(Absent, Absent), Qwen3Config(JsStr(""), Absent)}

\* One call of plugin.init: where it stands (pc), its local config, the
\* provider its healthCheck and its fetchVoices were called on, and whether
\* plugin.shutdown had been called before it.
InitCall(pc, config_, healthOn, fetchOn, afterShutdown) ==
    [pc |-> pc, config |-> config_, healthOn |-> healthOn,
     fetchOn |-> fetchOn, afterShutdown |-> afterShutdown]

\* The catch block of init: ctx.log.error(...) reads a property of the
\* module's ctx, a TypeError when shutdown has set it to null, and an error
\* thrown in the catch block rejects the promise init returned.
Caught(ctx_, host_) ==
    IF ctx_ = "null" THEN [pc |-> "rejected", host |-> host_]
    ELSE [pc |-> "resolved", host |-> Log(host_, "error")]

\* One closure of the cleanups array, called: ctx?.unregisterConfigSchema or
\* ctx?.unregisterExtension, nothing when ctx is null.
RunCleanup(ctx_, host_, cleanup) ==
    IF ctx_ = "null" THEN host_
    ELSE IF cleanup = "unregisterConfigSchema"
    THEN [host_ EXCEPT !.configSchema = FALSE]
    ELSE [host_ EXCEPT !.extension = [registered |-> FALSE, provider |-> 0]]

\* for (const cleanup of cleanups.reverse()) cleanup(): the last one first.
RECURSIVE RunCleanups(_, _, _)
RunCleanups(ctx_, host_, cleanups_) ==
    IF cleanups_ = <<>> THEN host_
    ELSE RunCleanups(ctx_,
                     RunCleanup(ctx_, host_, cleanups_[Len(cleanups_)]),
                     SubSeq(cleanups_, 1, Len(cleanups_) - 1))

\* plugin.init(context), up to its first await (or to its end when
\* validateConfig throws).
PluginInit ==
    /\ Len(inits) < MaxInits
    /\ \E config_ \in PluginConfigs :
          LET created == NewProvider(env, config_)
              registered == [host EXCEPT !.configSchema = TRUE]
              after == Len(shutdowns) > 0
          IN  /\ ctx' = "context"
              /\ providers' = Append(providers, created)
              /\ provider' = Len(providers) + 1
              /\ cleanups' = Append(cleanups, "unregisterConfigSchema")
              /\ IF ValidateConfigThrows(created.config)
                 THEN /\ host' = Caught("context", registered).host
                      /\ inits' = Append(inits,
                                         InitCall("resolved", config_, 0, 0,
                                                  after))
                 ELSE /\ host' = registered
                      /\ inits' = Append(inits,
                                         InitCall("awaitHealthCheck", config_,
                                                  Len(providers) + 1, 0,
                                                  after))
    /\ UNCHANGED shutdowns
    /\ UNCHANGED <<env, ctorConfig, config, voices, dynamicVoices, last, calls>>
    /\ UNCHANGED wavVars

\* init resumed after await provider.healthCheck(), up to its next await or
\* to its end.
InitAfterHealthCheck ==
    /\ \E i \in DOMAIN inits :
          /\ inits[i].pc = "awaitHealthCheck"
          /\ LET url == Endpoint(providers[inits[i].healthOn].config,
                                 "/v1/models")
             IN  \E reply \in RepliesTo(url, ProbeReplies) :
                   LET healthy == HealthCheckOutcome(reply).healthy
                   IN  IF healthy /\ provider # 0
                       THEN /\ inits' = [inits EXCEPT
                                           ![i].pc = "awaitFetchVoices",
                                           ![i].fetchOn = provider]
                            /\ host' = host
                       ELSE IF healthy \/ ctx = "null"
                       THEN /\ inits' = [inits EXCEPT
                                           ![i].pc = Caught(ctx, host).pc]
                            /\ host' = Caught(ctx, host).host
                       ELSE /\ inits' = [inits EXCEPT ![i].pc = "resolved"]
                            /\ host' = Log(host, "warn")
    /\ UNCHANGED <<ctx, provider, providers, cleanups, shutdowns>>
    /\ UNCHANGED <<env, ctorConfig, config, voices, dynamicVoices, last, calls>>
    /\ UNCHANGED wavVars

\* init resumed after await provider.fetchVoices(), to its end.
InitAfterFetchVoices ==
    /\ \E i \in DOMAIN inits :
          /\ inits[i].pc = "awaitFetchVoices"
          /\ LET on == inits[i].fetchOn
                 url == Endpoint(providers[on].config, "/v1/voices")
             IN  \E reply \in RepliesTo(url, VoicesReplies) :
                   LET out == FetchVoicesOutcome(providers[on].voices,
                                                 providers[on].dynamicVoices,
                                                 reply)
                   IN  /\ providers' =
                            [providers EXCEPT
                                ![on].voices = out.voices,
                                ![on].dynamicVoices = out.dynamicVoices]
                       /\ IF ctx = "null"
                          THEN /\ inits' = [inits EXCEPT
                                              ![i].pc = Caught(ctx, host).pc]
                               /\ host' = Caught(ctx, host).host
                               /\ cleanups' = cleanups
                          ELSE /\ inits' = [inits EXCEPT ![i].pc = "resolved"]
                               /\ host' =
                                    Log([host EXCEPT !.extension =
                                            [registered |-> TRUE,
                                             provider |-> provider]],
                                        "info")
                               /\ cleanups' =
                                    Append(cleanups, "unregisterExtension")
    /\ UNCHANGED <<ctx, provider, shutdowns>>
    /\ UNCHANGED <<env, ctorConfig, config, voices, dynamicVoices, last, calls>>
    /\ UNCHANGED wavVars

\* plugin.shutdown(), up to await provider.shutdown() (or to its end when
\* provider is null).
PluginShutdown ==
    /\ Len(shutdowns) < MaxShutdowns
    /\ host' = RunCleanups(ctx, host, cleanups)
    /\ cleanups' = <<>>
    /\ IF provider # 0
       THEN /\ shutdowns' = Append(shutdowns, "awaitProviderShutdown")
            /\ ctx' = ctx
       ELSE /\ shutdowns' = Append(shutdowns, "resolved")
            /\ ctx' = "null"
    /\ UNCHANGED <<provider, providers, inits>>
    /\ UNCHANGED <<env, ctorConfig, config, voices, dynamicVoices, last, calls>>
    /\ UNCHANGED wavVars

\* shutdown resumed after await provider.shutdown(), to its end.
ShutdownAfterProviderShutdown ==
    /\ \E k \in DOMAIN shutdowns :
          /\ shutdowns[k] = "awaitProviderShutdown"
          /\ shutdowns' = [shutdowns EXCEPT ![k] = "resolved"]
    /\ provider' = 0
    /\ ctx' = "null"
    /\ UNCHANGED <<providers, cleanups, host, inits>>
    /\ UNCHANGED <<env, ctorConfig, config, voices, dynamicVoices, last, calls>>
    /\ UNCHANGED wavVars

(***************************************************************************)
(* Specifications.                                                         *)
(***************************************************************************)

\* The provider as first constructed, before any call.
ProviderInit ==
    /\ config = Constructor(env, ctorConfig)
    /\ voices = StaticVoices
    /\ dynamicVoices = <<>>
    /\ last = NoCall
    /\ calls = 0

\* The module as loaded, no provider constructed yet (provider = null).
ProviderAbsent ==
    /\ env = [QWEN3_TTS_URL |-> Undefined, QWEN3_TTS_VOICE |-> Undefined]
    /\ ctorConfig = Qwen3Config(Absent, Absent)
    /\ config = Qwen3Config(Absent, Absent)
    /\ voices = <<>>
    /\ dynamicVoices = <<>>
    /\ last = NoCall
    /\ calls = 0

\* No buffer has been handed to the reader.
WavIdle ==
    /\ wavInput = [TestContainerInput EXCEPT !.kind = "none", !.cut = 0]
    /\ wavBuffer = <<>>
    /\ wavCall = "none"
    /\ wavResult = NoWavResult

\* The module as loaded: ctx and provider null, no cleanups, nothing
\* registered with the host, init and shutdown not called.
PluginLoaded ==
    /\ ctx = "null"
    /\ provider = 0
    /\ providers = <<>>
    /\ cleanups = <<>>
    /\ host = HostEmpty
    /\ inits = <<>>
    /\ shutdowns = <<>>

\* The adapter: a provider constructed from any configuration in any
\* environment, then called.
Init ==
    /\ env \in Environments
    /\ ctorConfig \in CtorConfigs
    /\ ProviderInit
    /\ WavIdle
    /\ PluginLoaded

Next == ValidateConfig \/ HealthCheck \/ Synthesize

Spec == Init /\ [][Next]_vars

\* The catalogue: a provider constructed with the defaults, or with an empty
\* serverUrl, whose voice list is fetched again and again.
InitVoices ==
    /\ env = [QWEN3_TTS_URL |-> Undefined, QWEN3_TTS_VOICE |-> Undefined]
    /\ ctorConfig \in {Qwen3Config(Absent, Absent),
                       Qwen3Config(JsStr(""), Absent)}
    /\ ProviderInit
    /\ WavIdle
    /\ PluginLoaded

NextVoices == FetchVoices

SpecVoices == InitVoices /\ [][NextVoices]_vars

\* The network side of the adapter: a provider constructed with the defaults,
\* or with an empty serverUrl, on which the three operations that reach the
\* server are called in any order.
InitRequests ==
    /\ env = [QWEN3_TTS_URL |-> Undefined, QWEN3_TTS_VOICE |-> Undefined]
    /\ ctorConfig \in {Qwen3Config(Absent, Absent),
                       Qwen3Config(JsStr(""), Absent)}
    /\ ProviderInit
    /\ WavIdle
    /\ PluginLoaded

NextRequests == HealthCheck \/ FetchVoices \/ Synthesize

SpecRequests == InitRequests /\ [][NextRequests]_vars

\* The plugin: the module as loaded, then init and shutdown called by the
\* host in any order, their steps interleaved in every way.
InitPlugin ==
    /\ ProviderAbsent
    /\ WavIdle
    /\ PluginLoaded

NextPlugin ==
    \/ PluginInit
    \/ InitAfterHealthCheck
    \/ InitAfterFetchVoices
    \/ PluginShutdown
    \/ ShutdownAfterProviderShutdown

SpecPlugin == InitPlugin /\ [][NextPlugin]_vars

\* The reader: one of the generated buffers, then one call.
InitWav ==
    /\ wavInput \in WavInputs
    /\ wavBuffer = BuildWav(wavInput)
    /\ wavCall = "none"
    /\ wavResult = NoWavResult
    /\ ProviderAbsent
    /\ PluginLoaded

NextWav == CallWavToPcm \/ CallParseWavSampleRate

SpecWav == InitWav /\ [][NextWav]_vars

(***************************************************************************)
(* Properties of the reader (checked under SpecWav).                       *)
(***************************************************************************)

\* The whole container of the test's shape: nothing cut off, and a fmt chunk
\* large enough to hold the sample rate field (bytes 4..7 of its body).
WellFormedContainer ==
    /\ wavInput.kind = "container"
    /\ wavInput.cut = ContainerLen(wavInput.fmtSize, wavInput.payloadLen)
    /\ wavInput.fmtSize >= 8

\* The 4 bytes at 0-based offset k are exactly the given identifier.
BytesAt(buf, k, id) == k + 4 <= Len(buf) /\ SubSeq(buf, k + 1, k + 4) = id

\* No fmt or data chunk identifier occurs anywhere at or after offset 12.
NoValidChunkHeaders(buf) ==
    \A k \in 12..Len(buf) :
        ~BytesAt(buf, k, STR_fmt) /\ ~BytesAt(buf, k, STR_data)

\* The unsigned 32-bit little-endian number stored at bytes 24..27.
RateField(buf) ==
    buf[25] + 256 * buf[26] + 65536 * buf[27] + 16777216 * buf[28]

\* C1: wavToPcm never signals an error: for every buffer, truncated
\* containers and a fmt chunk header within the last 16 bytes included, the
\* call returns a payload and a sample rate.
C1_WavToPcmNeverThrows ==
    wavCall = "wavToPcm" => wavResult.status = "returned"

\* C2: for every well-formed container (12-byte header, fmt chunk encoding
\* rate r, data chunk whose size is the length of its payload P), for every
\* fmt chunk-size and every P, wavToPcm returns rate r and exactly P.
C2_WellFormedExtraction ==
    (wavCall = "wavToPcm" /\ WellFormedContainer) =>
        /\ wavResult.status = "returned"
        /\ wavResult.sampleRate = wavInput.rate
        /\ wavResult.pcm = Payload(wavInput.payloadLen)

\* C9: when the scan ends without locating a data chunk, wavToPcm returns the
\* buffer from offset 44 on and parseWavSampleRate's result; a buffer of
\* length n >= 44 with no valid chunk headers yields a payload of length
\* exactly n - 44.
C9_FallbackSlice ==
    wavCall = "wavToPcm" =>
        /\ (wavResult.status = "returned" /\ wavResult.via = "fallback") =>
              /\ wavResult.pcm =
                    [i \in 1..Max(Len(wavBuffer) - 44, 0) |-> wavBuffer[44 + i]]
              /\ wavResult.sampleRate =
                    IF Len(wavBuffer) >= 28 /\ BytesAt(wavBuffer, 0, STR_RIFF)
                    THEN RateField(wavBuffer) ELSE 24000
        /\ (Len(wavBuffer) >= 44 /\ NoValidChunkHeaders(wavBuffer)) =>
              /\ wavResult.status = "returned"
              /\ Len(wavResult.pcm) = Len(wavBuffer) - 44

\* C10: parseWavSampleRate is total; it returns 24000 for every buffer shorter
\* than 28 bytes and for every buffer that does not begin with ASCII RIFF,
\* and the little-endian 32-bit number at bytes 24..27 for every other one.
C10_ParseWavSampleRate ==
    wavCall = "parseWavSampleRate" =>
        /\ wavResult.status = "returned"
        /\ wavResult.sampleRate =
              IF Len(wavBuffer) < 28 \/ ~BytesAt(wavBuffer, 0, STR_RIFF)
              THEN 24000 ELSE RateField(wavBuffer)

\* The container holds a data chunk of chunk-size 0 whose 8-byte header is
\* the last 8 bytes of the buffer.
DataHeaderAtEnd ==
    /\ WellFormedContainer
    /\ wavInput.payloadLen = 0

\* C13: the chunk scan of wavToPcm stops without a data chunk only when fewer
\* than 8 bytes remain at the current offset; while offset + 8 <= length the
\* header at the offset is read, so a data chunk whose header occupies the
\* last 8 bytes of the buffer is located and returned with an empty payload.
C13_ScanStopsWhenNoHeaderFits ==
    wavCall = "wavToPcm" =>
        /\ (wavResult.status = "returned" /\ wavResult.via = "fallback") =>
              wavResult.at + 8 > Len(wavBuffer)
        /\ DataHeaderAtEnd =>
              /\ wavResult.status = "returned"
              /\ wavResult.via = "data"
              /\ wavResult.at = Len(wavBuffer) - 8
              /\ wavResult.pcm = <<>>

\* The call located a data chunk: it returned from inside the loop.
DataLocated ==
    /\ wavCall = "wavToPcm"
    /\ wavResult.status = "returned"
    /\ wavResult.via = "data"

\* The chunk-size declared in the header at 0-based offset k (bytes k+4..k+7
\* as an unsigned little-endian number).
DeclaredSize(buf, k) ==
    buf[k + 5] + 256 * buf[k + 6] + 65536 * buf[k + 7] + 16777216 * buf[k + 8]

\* The number of bytes of the buffer after the header at offset k.
BytesAfterHeader(buf, k) == Len(buf) - (k + 8)

\* C14 as stated: whenever wavToPcm locates a data chunk, the payload starts
\* right after the 8-byte header and its length equals the declared
\* chunk-size, for every declared chunk-size, one larger than the number of
\* bytes that remain included.
C14_PayloadLengthIsChunkSize ==
    DataLocated =>
        /\ Len(wavResult.pcm) = DeclaredSize(wavBuffer, wavResult.at)
        /\ \A i \in 1..Len(wavResult.pcm) :
              wavResult.pcm[i] = wavBuffer[wavResult.at + 8 + i]

\* C14 amended: whenever wavToPcm locates a data chunk, the payload starts
\* right after the 8-byte header and its length is the declared chunk-size
\* or the number of bytes that remain after the header, whichever is
\* smaller: a chunk-size reaching past the end of the buffer yields the
\* bytes that are there.
C14_PayloadClampedToBuffer ==
    DataLocated =>
        wavResult.pcm =
            [i \in 1..Min(DeclaredSize(wavBuffer, wavResult.at),
                          BytesAfterHeader(wavBuffer, wavResult.at)) |->
                wavBuffer[wavResult.at + 8 + i]]

\* C14 witness: a data chunk declaring more bytes than remain, returned with
\* the bytes that remain.
C14_Witness ==
    /\ DataLocated
    /\ DeclaredSize(wavBuffer, wavResult.at) >
          BytesAfterHeader(wavBuffer, wavResult.at)
    /\ Len(wavResult.pcm) = BytesAfterHeader(wavBuffer, wavResult.at)
    /\ Len(wavResult.pcm) > 0

\* The unsigned 32-bit little-endian number at 0-based offset k.
U32At(buf, k) ==
    buf[k + 1] + 256 * buf[k + 2] + 65536 * buf[k + 3] + 16777216 * buf[k + 4]

\* The scan, which starts at offset 12, meets a fmt chunk there: the buffer
\* is a container or a filled buffer with a fmt header planted at 12, and
\* more than 8 bytes follow offset 12.
FmtMetAt12 ==
    /\ wavCall = "wavToPcm"
    /\ \/ wavInput.kind = "container"
       \/ /\ wavInput.kind = "filled"
          /\ wavInput.plantId = "fmt "
          /\ wavInput.plantAt = 12
    /\ Len(wavBuffer) > 20

\* C15 as stated: when wavToPcm meets a fmt chunk the sample rate it records
\* is the little-endian unsigned 32-bit value at payload offset 12, that is
\* at absolute offset chunk data start + 12, the chunk data starting 8 bytes
\* after the start of the chunk header; the scan continues with the next
\* chunk.
C15_SampleRateAtPayloadOffset12 ==
    (FmtMetAt12 /\ DataLocated /\ Len(wavBuffer) >= 36) =>
        /\ wavResult.sampleRate = U32At(wavBuffer, (12 + 8) + 12)
        /\ wavResult.at = 20 + DeclaredSize(wavBuffer, 12)

\* C15 amended: when wavToPcm meets a fmt chunk the sample rate it records
\* is the little-endian unsigned 32-bit value at payload offset 4, that is at
\* absolute offset chunk header start + 12 = chunk data start + 4, and the
\* scan continues with the next chunk, at header start + 8 + chunk-size;
\* when those four bytes reach past the end of the buffer the call throws.
C15_SampleRateAtPayloadOffset4 ==
    FmtMetAt12 =>
        IF Len(wavBuffer) < 12 + 8 + 4 + 4
        THEN wavResult.status = "threw" /\ wavResult.at = 12
        ELSE /\ wavResult.status = "returned"
             /\ wavResult.at >= 20 + DeclaredSize(wavBuffer, 12)
             /\ wavResult.via = "data" =>
                   /\ wavResult.sampleRate = U32At(wavBuffer, (12 + 8) + 4)
                   /\ wavResult.at = 20 + DeclaredSize(wavBuffer, 12)
             /\ (wavResult.via = "data" /\ wavInput.fmtSize >= 8) =>
                   wavResult.sampleRate = wavInput.rate

\* C15 witness: the test's container at 44100 Hz: the rate recorded from the
\* fmt chunk at 12 is the number at 24, not the one at 32, and the data chunk
\* after it was reached.
C15_Witness ==
    /\ FmtMetAt12
    /\ DataLocated
    /\ wavInput.fmtSize = 16
    /\ wavInput.rate = 44100
    /\ wavResult.sampleRate = 44100
    /\ wavResult.at = 36
    /\ U32At(wavBuffer, 32) # 44100

(***************************************************************************)
(* Properties of the voice catalogue (checked under SpecVoices).           *)
(***************************************************************************)

\* The last call was fetchVoices and its response was a success carrying a
\* JSON array of objects and strings, so that the call went through.
FetchSucceeded ==
    /\ last.op = "fetchVoices"
    /\ last.reply.kind = "response"
    /\ last.reply.status \in 200..299
    /\ last.reply.bodyOk
    /\ last.reply.json.valid
    /\ last.reply.json.isArray
    /\ \A i \in DOMAIN last.reply.json.items :
          last.reply.json.items[i].t \in {"object", "string"}

\* The last call was fetchVoices and it met a network failure, a timeout or
\* a non-success status.
FetchFailed ==
    /\ last.op = "fetchVoices"
    /\ \/ last.reply.kind \in {"network_error", "timeout", "invalid_url"}
       \/ last.reply.kind = "response" /\ last.reply.status \notin 200..299

\* The entries the last fetch delivered, in fetched order.
FetchedEntries ==
    [i \in DOMAIN last.reply.json.items |->
        NormalizeVoice(last.reply.json.items[i])]

\* The entries of a list whose id is not among ids, in their order.
RECURSIVE EntriesWithout(_, _)
EntriesWithout(list, ids) ==
    IF list = <<>> THEN <<>>
    ELSE (IF Head(list).id \in ids THEN <<>> ELSE <<Head(list)>>)
             \o EntriesWithout(Tail(list), ids)

\* The spec's example on the shipped defaults: B' = a fetched entry with the
\* id of the default Vivian, C = a fetched entry with a new id.
ExampleFetched ==
    <<JsonObject(JsStr("Vivian"), Undefined, JsStr("Vivian v2"), JsStr("zh"),
                 Undefined, Undefined),
      JsonString("Nova")>>

ExampleCatalogue ==
    Tail(StaticVoices)
        \o <<Voice(JsStr("Vivian"), JsStr("Vivian v2"), JsStr("zh"),
                   JsStr("neutral"), Undefined),
             Voice(JsStr("Nova"), JsStr("Nova"), JsStr("en"),
                   JsStr("neutral"), Undefined)>>

C4_DeduplicatedById ==
    FetchSucceeded =>
        \A i, j \in DOMAIN voices : voices[i].id = voices[j].id => i = j

\* C5: when fetchVoices meets a network failure, a timeout or a non-success
\* status, the catalogue after the call is the catalogue before it and the
\* call signals no error to its caller.
C5_FailureKeepsCatalogue ==
    FetchFailed => voices = last.before /\ ~last.threw

\* C5 witness: a fetch that timed out after an earlier fetch had changed the
\* catalogue.
C5_Witness ==
    /\ FetchFailed
    /\ last.reply.kind = "timeout"
    /\ last.before # StaticVoices
    /\ voices = last.before

\* C12: after any sequence of successful fetchVoices calls the catalogue is
\* the static defaults whose id does not collide with the most recent
\* fetched list, followed by that list: entries delivered only by an earlier
\* fetch are gone and defaults dropped by an earlier collision are back.
C12_LatestFetchReplacesDynamic ==
    FetchSucceeded =>
        voices =
            EntriesWithout(StaticVoices,
                           {FetchedEntries[i].id : i \in DOMAIN FetchedEntries})
                \o FetchedEntries

(***************************************************************************)
(* Properties of the adapter's calls (checked under Spec).                 *)
(***************************************************************************)

\* The decimal text of the status codes the server answers with.
StatusText(status) ==
    CASE status = 200 -> "200"
      [] status = 299 -> "299"
      [] status = 304 -> "304"
      [] status = 404 -> "404"
      [] status = 500 -> "500"

\* C6: whenever the synthesis endpoint answers with a non-2xx status,
\* synthesize rejects, returns no audio buffer, and the error's message
\* contains the status code and the text of the response body.
C6_SynthesisErrorCarriesStatusAndBody ==
    (/\ last.op = "synthesize"
     /\ last.reply.kind = "response"
     /\ last.reply.status \notin 200..299) =>
        /\ last.threw
        /\ last.value = NoAudio
        /\ last.reply.bodyOk =>
              /\ Contains(last.message, StatusText(last.reply.status))
              /\ Contains(last.message, last.reply.text)

\* C6 witness: a 404 whose body text was read.
C6_Witness ==
    /\ last.op = "synthesize"
    /\ last.reply.kind = "response"
    /\ last.reply.status = 404
    /\ last.reply.bodyOk
    /\ last.reply.text = "voice not found"
    /\ last.threw

\* C7: healthCheck never throws; it returns false on every network failure,
\* timeout and non-success status, and true only when the probe of
\* /v1/models answered with a success status.
C7_HealthCheckNeverThrows ==
    last.op = "healthCheck" =>
        /\ ~last.threw
        /\ last.healthy <=>
              (last.reply.kind = "response" /\ last.reply.status \in 200..299)
        /\ last.requests =
              <<Request("GET", StringOf(config.serverUrl) \o "/v1/models")>>

\* C7 witness: a probe that timed out and was reported as unreachable.
C7_Witness ==
    /\ last.op = "healthCheck"
    /\ last.reply.kind = "timeout"
    /\ ~last.healthy
    /\ ~last.threw

\* The constructor was given an object with no serverUrl key.
ServerUrlAbsent == ctorConfig.serverUrl = Absent

\* C8 as stated: validateConfig fails whenever the server URL is absent from,
\* or empty in, the configuration the adapter was constructed with, and it
\* performs no network request.
C8_FailsWhenAbsentOrEmpty ==
    last.op = "validateConfig" =>
        /\ last.requests = <<>>
        /\ (ServerUrlAbsent \/ ctorConfig.serverUrl = JsStr("")) => last.threw

\* C8 amended: validateConfig fails exactly when the configuration the
\* adapter was constructed with has a serverUrl key holding an empty string,
\* undefined or null; with the key absent the default URL applies and
\* validateConfig succeeds; it performs no network request in any case.
C8_FailsWhenPresentAndEmpty ==
    last.op = "validateConfig" =>
        /\ last.requests = <<>>
        /\ last.threw <=>
              ctorConfig.serverUrl \in {JsStr(""), Undefined, Null}
        /\ ServerUrlAbsent => ~last.threw

\* C8 witness: no serverUrl key and an empty QWEN3_TTS_URL: the built-in
\* default applies and validateConfig returns.
C8_Witness ==
    /\ last.op = "validateConfig"
    /\ ServerUrlAbsent
    /\ env.QWEN3_TTS_URL = JsStr("")
    /\ config.serverUrl = JsStr("http://qwen3-tts:8880")
    /\ ~last.threw

(***************************************************************************)
(* Properties of the requests (checked under SpecRequests).                *)
(***************************************************************************)

\* The method and path of the request each operation is to issue.
RequestOf(op) ==
    CASE op = "healthCheck" -> Request("GET", "/v1/models")
      [] op = "fetchVoices" -> Request("GET", "/v1/voices")
      [] op = "synthesize" -> Request("POST", "/v1/audio/speech")

\* C11: each call of healthCheck, fetchVoices and synthesize issues exactly
\* one request (GET /v1/models, GET /v1/voices, POST /v1/audio/speech),
\* whether it succeeds or fails, and none issues a second one as a retry.
C11_ExactlyOneRequest ==
    last.op \in {"healthCheck", "fetchVoices", "synthesize"} =>
        /\ Len(last.requests) = 1
        /\ last.requests[1].method = RequestOf(last.op).method
        /\ last.requests[1].url =
              StringOf(config.serverUrl) \o RequestOf(last.op).url

\* C11 witness: a synthesize call whose fetch failed on the network, after
\* which nothing more was sent.
C11_Witness ==
    /\ last.op = "synthesize"
    /\ last.reply.kind = "network_error"
    /\ last.threw
    /\ last.requests = <<Request("POST", "http://qwen3-tts:8880/v1/audio/speech")>>

(***************************************************************************)
(* Properties of the plugin (checked under SpecPlugin).                    *)
(***************************************************************************)

\* shutdown has completed, every call of init has finished, and every init
\* was called before shutdown was.
PluginSettled ==
    /\ Len(shutdowns) > 0
    /\ \A k \in DOMAIN shutdowns : shutdowns[k] = "resolved"
    /\ Len(inits) > 0
    /\ \A i \in DOMAIN inits :
          /\ inits[i].pc \in {"resolved", "rejected"}
          /\ ~inits[i].afterShutdown

\* C16: for every interleaving of init and shutdown (shutdown running while
\* init is suspended awaiting healthCheck or fetchVoices, init called again
\* before the first init resumes), once shutdown has completed and every
\* pending init has finished, no config schema and no tts extension that
\* init registered remains registered with the host, the cleanup list is
\* empty, and init has not rejected.
C16_ShutdownLeavesNothingRegistered ==
    PluginSettled =>
        /\ ~host.configSchema
        /\ ~host.extension.registered
        /\ cleanups = <<>>
        /\ \A i \in DOMAIN inits : inits[i].pc # "rejected"

====
